---- MODULE Spec2Model ----
(***************************************************************************)
(* Drone image server (server.py): the storage layout, the upload          *)
(* handlers and the retrieval handlers, as a state machine over the three  *)
(* directory trees images/, metadata/ and logs/.                           *)
(*                                                                         *)
(* Strings are sequences of atoms.  An atom stands for a run of characters *)
(* that none of the substrings the program searches for ("images",         *)
(* "flight_", an extension, "/") straddles, so str.replace, os.path.join,  *)
(* os.path.splitext and the "in" test act on atoms as they act on          *)
(* characters.  Only an extension atom contains a dot.                     *)
(*                                                                         *)
(* Every request handler runs as a process (one per in-flight request)     *)
(* that takes one step per statement touching the clock or the file        *)
(* system.  The handlers are coroutines of one event loop (line 393 starts *)
(* a single server process): a handler that runs keeps the loop until it   *)
(* reaches "await file.read()" or returns, and there the handlers          *)
(* interleave.  The clock advances at any time.                            *)
(* The ISO timestamps stored in the metadata record, the log line and the  *)
(* responses are left out: no handler reads them back.                     *)
(*                                                                         *)
(* The retrieval handlers have no await: each runs in one piece and its    *)
(* answer is a function of the three trees, given as an operator over the  *)
(* state.  Paths are resolved as the file system resolves them, ".."       *)
(* included; files of the working directory outside the three trees are    *)
(* left out.                                                               *)
(*                                                                         *)
(* Spec has concurrent handlers, batches and failing steps over a small    *)
(* set of names; SerialSpec has one client uploading file after file       *)
(* without failures over a wider set of flight ids and file names.         *)
(* ReadSpec adds the retrieval requests as steps that record their answer, *)
(* and files removed from the store by hand; ClientSpec adds a call of     *)
(* get_image_by_index of client.py, which makes two requests in a row.     *)
(***************************************************************************)
EXTENDS Integers, Sequences, FiniteSets, TLC

(* ------------------------------ bounds -------------------------------- *)
\* clock ticks (microseconds in the program) per millisecond
TicksPerMs == 2
\* milliseconds per second, seconds per day (scaled down)
MsPerSec == 2
SecPerDay == 2
\* how many ticks the clock may advance during a run
ClockSpan == 3
\* concurrent request handlers
NumProcs == 2
\* uploaded files (single uploads and batch entries) accepted during a run
MaxUploads == 2
\* entries of one upload_batch call
MaxBatch == 2
\* upload attempts that fail during a run (I/O errors, malformed input)
MaxFaults == 1

TicksPerSec == MsPerSec * TicksPerMs
TicksPerDay == SecPerDay * TicksPerSec
\* the run starts shortly before midnight of day 0
StartClock == TicksPerDay - 3
MaxClock == StartClock + ClockSpan

Procs == 1..NumProcs

(* ----------------------------- constants ------------------------------ *)
IMAGE_DIR == <<"images">>
METADATA_DIR == <<"metadata">>
LOGS_DIR == <<"logs">>

\* None, and the empty string: both are falsy wherever the handlers test them
None == <<>>

\* extensions (the atoms that begin with a dot)
ExtAtoms == {".jpg", ".jpeg", ".png", ".tif", ".tiff", ".json", ".JPG", ".PNG"}

(* --------------------------- request inputs --------------------------- *)
\* flight_id form field
FlightIds == {None, <<"A">>, <<"B">>}
\* file.filename of an uploaded file
OriginalNames == {<<"a", ".jpg">>, <<"b", ".png">>}
\* the bytes of the k-th file accepted during a run: k bytes, unlike those of
\* any other file (the server never looks into the bytes)
ContentOf(k) == [i \in 1..k |-> ToString(k)]
\* camera_settings form field: absent, or text that is no JSON document
CameraSettings == {None, <<"invalid json">>}
\* gps_latitude, gps_longitude, altitude and notes of request req (the server
\* hands them on unread): the first request of a run submits them, the later
\* ones leave them out
FormOf(req) ==
  IF req = 1
  THEN [gps_latitude |-> <<"lat">>, gps_longitude |-> <<"lon">>,
        altitude |-> <<"alt">>, notes |-> <<"note">>]
  ELSE [gps_latitude |-> None, gps_longitude |-> None,
        altitude |-> None, notes |-> None]

(* ------------------------------ strings ------------------------------- *)
\* os.path.join of two relative components
Join(a, b) == a \o <<"/">> \o b

\* os.path.splitext(p)[1]: from the last dot of the last component, unless
\* the component starts with that dot
SplitExt(p) ==
  IF Len(p) >= 2 /\ p[Len(p)] \in ExtAtoms /\ p[Len(p) - 1] # "/"
  THEN <<p[Len(p)]>>
  ELSE <<>>

RECURSIVE Interleave(_, _)
\* s.replace("", new): new before every element and at the end
Interleave(s, new) ==
  IF s = <<>> THEN new ELSE new \o <<Head(s)>> \o Interleave(Tail(s), new)

RECURSIVE Replace(_, _, _)
\* s.replace(old, new): every non-overlapping occurrence, left to right
Replace(s, old, new) ==
  IF old = <<>> THEN Interleave(s, new)
  ELSE IF Len(s) < Len(old) THEN s
  ELSE IF SubSeq(s, 1, Len(old)) = old
       THEN new \o Replace(SubSeq(s, Len(old) + 1, Len(s)), old, new)
       ELSE <<Head(s)>> \o Replace(Tail(s), old, new)

\* old in s
Contains(s, old) ==
  \E i \in 1..(Len(s) - Len(old) + 1) : SubSeq(s, i, i + Len(old) - 1) = old

RECURSIVE LastSepUpTo(_, _)
\* index of the last "/" among the first i elements of p (0 if none)
LastSepUpTo(p, i) ==
  IF i = 0 THEN 0 ELSE IF p[i] = "/" THEN i ELSE LastSepUpTo(p, i - 1)
\* index of the last "/" of p (0 if none)
LastSep(p) == LastSepUpTo(p, Len(p))

\* os.path.dirname, os.path.basename
DirName(p) == IF LastSep(p) = 0 THEN <<>> ELSE SubSeq(p, 1, LastSep(p) - 1)
BaseName(p) == SubSeq(p, LastSep(p) + 1, Len(p))

\* os.makedirs(p, exist_ok=True): p and every parent of p
MakeDirs(p) ==
  {p} \cup {SubSeq(p, 1, i - 1) : i \in {j \in 2..Len(p) : p[j] = "/"}}

(* ------------------------------- clock -------------------------------- *)
Day(t) == t \div TicksPerDay
SecOfDay(t) == (t % TicksPerDay) \div TicksPerSec
MsOfSec(t) == (t % TicksPerSec) \div TicksPerMs

\* now.strftime("%Y-%m-%d")
StrfDate(t) == <<"D", ToString(Day(t))>>
\* now.strftime("%Y%m%d_%H%M%S")
StrfDateTime(t) == <<ToString(Day(t)), "_", ToString(SecOfDay(t))>>
\* now.strftime("%Y%m%d_%H%M%S_%f")[:-3]: the microseconds cut to milliseconds
StrfMillis(t) == StrfDateTime(t) \o <<"_", ToString(MsOfSec(t))>>

(* --------------------------- path allocator --------------------------- *)
\* get_timestamped_path: (full_path, date_folder, flight_folder) at time t
get_timestamped_path(flight_id, t) ==
  LET date_folder == StrfDate(t)
      flight_folder == IF flight_id # None
                       THEN <<"flight_">> \o flight_id
                       ELSE <<"flight_">> \o StrfDateTime(t)
  IN [full_path |-> Join(Join(IMAGE_DIR, date_folder), flight_folder),
      date_folder |-> date_folder,
      flight_folder |-> flight_folder]

\* a generate_filename that keeps the whole client-supplied name
generate_filename_keep_name(original_filename, t) ==
  StrfMillis(t) \o original_filename

\* generate_filename at time t
generate_filename(original_filename, t) ==
  StrfMillis(t) \o SplitExt(original_filename)

\* the metadata path save_metadata and get_metadata derive from an image path
MetadataFile(image_path) ==
  Replace(Replace(image_path, IMAGE_DIR, METADATA_DIR), SplitExt(image_path), <<".json">>)

(* ------------------------------- state -------------------------------- *)
VARIABLES
  clock,      \* datetime.now(), in ticks
  dirs,       \* the directories that exist (paths)
  images,     \* the files under images/: path -> bytes
  metadata,   \* the files under metadata/: path -> JSON document
  logs,       \* the files under logs/: path -> lines
  proc,       \* the request handlers: position and local variables
  started,    \* requests accepted so far
  accepted,   \* uploaded files accepted so far
  attempts,   \* every finished upload attempt (single upload or batch entry)
  responses,  \* request -> HTTP response
  reply,      \* the last retrieval request handled, and its answer
  client,     \* client.py: a call of get_image_by_index
  removed     \* the image files taken out of the store by hand

vars == <<clock, dirs, images, metadata, logs, proc, started, accepted, attempts,
          responses, reply, client, removed>>

\* handler p is between two awaits: it holds the event loop.  The only
\* await of the upload handlers is file.read(), lines 110 and 170, reached
\* with pc = "write"; a batch goes from one entry to the next without one
MidBlock(p) ==
  \/ proc[p].pc \in {"name", "meta", "log"}
  \/ proc[p].pc = "path" /\ proc[p].idx > 1

\* the event loop can run handler p: no other handler holds it
Runnable(p) == \A q \in Procs \ {p} : ~MidBlock(q)

\* the handler that takes the next request: the idle handlers are
\* interchangeable, the first of them is taken
FreeHandler(p) ==
  /\ proc[p].pc = "idle"
  /\ Runnable(p)
  /\ \A q \in Procs : q < p => proc[q].pc # "idle"

\* the flight ids are interchangeable: "B" is the second distinct id of a run
FlightIdsUsed ==
  {a.flight_id : a \in attempts} \cup {proc[p].flight_id : p \in Procs}
NextFlightId(flight_id) == flight_id = <<"B">> => <<"A">> \in FlightIdsUsed

\* a handler that serves no request.  failed (the steps that raised), wrote (the
\* files written in full) and inflight (the requests in progress on arrival)
\* record what happened to the attempt; no handler reads them
Idle ==
  [pc |-> "idle", op |-> "none", req |-> 0, file |-> 0, flight_id |-> None,
   total |-> 0, idx |-> 0, results |-> <<>>,
   full_path |-> <<>>, date_folder |-> <<>>, flight_folder |-> <<>>,
   orig |-> <<>>, filename |-> <<>>, image_path |-> <<>>,
   content |-> <<>>, metadata_file |-> <<>>,
   failed |-> {}, wrote |-> {}, inflight |-> {}]

\* f with the file at path written (created or replaced)
WriteFile(f, path, data) ==
  [q \in DOMAIN f \cup {path} |-> IF q = path THEN data ELSE f[q]]

\* the proper prefixes of the bytes: what a write that fails leaves behind
Truncations(content) == {SubSeq(content, 1, n) : n \in 0..(Len(content) - 1)}

\* no retrieval request has been handled
NoReply == [op |-> "none", args |-> <<>>, response |-> <<>>]

\* client.py: no call of get_image_by_index has been made.  requested is the
\* sequence of file names asked of GET /images/{filename}
ClientIdle ==
  [pc |-> "idle", index |-> 0, images |-> <<>>, filename |-> <<>>,
   requested |-> <<>>, result |-> <<>>]

\* lines 17-24: the three roots exist, and nothing else
Init ==
  /\ clock = StartClock
  /\ dirs = {IMAGE_DIR, METADATA_DIR, LOGS_DIR}
  /\ images = <<>>
  /\ metadata = <<>>
  /\ logs = <<>>
  /\ proc = [p \in Procs |-> Idle]
  /\ started = 0
  /\ accepted = 0
  /\ attempts = {}
  /\ responses = <<>>
  /\ reply = NoReply
  /\ client = ClientIdle
  /\ removed = {}

\* time passes
Tick ==
  /\ clock < MaxClock
  /\ clock' = clock + 1
  /\ UNCHANGED <<dirs, images, metadata, logs, proc, started, accepted, attempts, responses, reply, client, removed>>

(* ------------------------------ uploads ------------------------------- *)
\* the requests in progress
InFlight == {proc[q].req : q \in {r \in Procs : proc[r].pc # "idle"}}

\* POST /upload/ arrives (lines 90-99)
UploadImageStart(p, flight_id) ==
  /\ FreeHandler(p)
  /\ NextFlightId(flight_id)
  /\ accepted < MaxUploads
  /\ started' = started + 1
  /\ accepted' = accepted + 1
  /\ proc' = [proc EXCEPT ![p] =
       [Idle EXCEPT !.pc = "path", !.op = "upload_image", !.req = started + 1,
                    !.file = accepted + 1, !.inflight = InFlight,
                    !.flight_id = flight_id, !.total = 1, !.idx = 1]]
  /\ UNCHANGED <<clock, dirs, images, metadata, logs, attempts, responses, reply, client, removed>>

\* POST /upload/batch arrives with n files (lines 149-158)
UploadBatchStart(p, flight_id, n) ==
  /\ FreeHandler(p)
  /\ NextFlightId(flight_id)
  /\ accepted + n <= MaxUploads
  /\ started' = started + 1
  /\ accepted' = accepted + n
  /\ proc' = [proc EXCEPT ![p] =
       [Idle EXCEPT !.pc = "path", !.op = "upload_batch", !.req = started + 1,
                    !.file = accepted + 1, !.inflight = InFlight,
                    !.flight_id = flight_id, !.total = n, !.idx = 1]]
  /\ UNCHANGED <<clock, dirs, images, metadata, logs, attempts, responses, reply, client, removed>>

\* the record of one finished attempt of handler p
Attempt(p, status, failed, wrote) ==
  [req |-> proc[p].req, idx |-> proc[p].idx, op |-> proc[p].op,
   sent |-> ContentOf(proc[p].file), inflight |-> proc[p].inflight,
   status |-> status, failed |-> failed, wrote |-> wrote,
   flight_id |-> proc[p].flight_id, flight_folder |-> proc[p].flight_folder,
   date_folder |-> proc[p].date_folder,
   orig |-> proc[p].orig, filename |-> proc[p].filename,
   image_path |-> proc[p].image_path]

\* an upload_batch that puts the newest result first
BatchNextNewestFirst(p, result) ==
  LET results == <<result>> \o proc[p].results IN
  IF proc[p].idx < proc[p].total
  THEN /\ proc' = [proc EXCEPT ![p] =
            [Idle EXCEPT !.pc = "path", !.op = proc[p].op, !.req = proc[p].req,
                         !.file = proc[p].file + 1, !.inflight = proc[p].inflight,
                         !.flight_id = proc[p].flight_id, !.total = proc[p].total,
                         !.idx = proc[p].idx + 1, !.results = results]]
       /\ UNCHANGED responses
  ELSE /\ proc' = [proc EXCEPT ![p] = Idle]
       /\ responses' = WriteFile(responses, proc[p].req,
            [op |-> "upload_batch", status_code |-> 200,
             total |-> proc[p].total,
             successful |-> Cardinality({i \in 1..Len(results) : results[i].status = "success"}),
             failed |-> Cardinality({i \in 1..Len(results) : results[i].status = "error"}),
             results |-> results])

\* upload_batch, lines 195-205: the entry's result is appended and the loop
\* goes on; lines 207-212: after the last entry the summary is returned
BatchNext(p, result) ==
  LET results == Append(proc[p].results, result) IN
  IF proc[p].idx < proc[p].total
  THEN /\ proc' = [proc EXCEPT ![p] =
            [Idle EXCEPT !.pc = "path", !.op = proc[p].op, !.req = proc[p].req,
                         !.file = proc[p].file + 1, !.inflight = proc[p].inflight,
                         !.flight_id = proc[p].flight_id, !.total = proc[p].total,
                         !.idx = proc[p].idx + 1, !.results = results]]
       /\ UNCHANGED responses
  ELSE /\ proc' = [proc EXCEPT ![p] = Idle]
       /\ responses' = WriteFile(responses, proc[p].req,
            [op |-> "upload_batch", status_code |-> 200,
             total |-> proc[p].total,
             successful |-> Cardinality({i \in 1..Len(results) : results[i].status = "success"}),
             failed |-> Cardinality({i \in 1..Len(results) : results[i].status = "error"}),
             results |-> results])

\* an exception e raised by the step `step` of handler p:
\* upload_image, lines 145-146: HTTP 500; upload_batch, lines 200-205
Raise(p, step, e) ==
  /\ Cardinality({a \in attempts : a.status = "error"}) < MaxFaults
  /\ attempts' = attempts \cup {Attempt(p, "error", proc[p].failed \cup {step}, proc[p].wrote)}
  /\ IF proc[p].op = "upload_image"
     THEN /\ proc' = [proc EXCEPT ![p] = Idle]
          /\ responses' = WriteFile(responses, proc[p].req,
               [op |-> "upload_image", status_code |-> 500,
                detail |-> <<"Upload failed: ">> \o e])
     ELSE BatchNext(p, [status |-> "error", filename |-> proc[p].orig, error |-> e])

\* lines 137-144 and 195-199: the attempt succeeded
Succeed(p) ==
  /\ attempts' = attempts \cup {Attempt(p, "success", proc[p].failed, proc[p].wrote \cup {"log"})}
  /\ IF proc[p].op = "upload_image"
     THEN /\ proc' = [proc EXCEPT ![p] = Idle]
          /\ responses' = WriteFile(responses, proc[p].req,
               [op |-> "upload_image", status_code |-> 200, status |-> "success",
                filename |-> proc[p].filename, path |-> proc[p].image_path,
                metadata_file |-> proc[p].metadata_file,
                flight_id |-> IF proc[p].flight_id # None
                              THEN proc[p].flight_id ELSE proc[p].flight_folder])
     ELSE BatchNext(p, [status |-> "success", filename |-> proc[p].filename,
                        path |-> proc[p].image_path])

\* a get_timestamped_path whose makedirs lacks exist_ok: a directory that
\* exists is an error
GetTimestampedPathExclusive(p) ==
  /\ proc[p].pc = "path"
  /\ Runnable(p)
  /\ LET d == get_timestamped_path(proc[p].flight_id, clock) IN
       IF d.full_path \in dirs
       THEN /\ UNCHANGED dirs
            /\ Raise(p, "path", <<"FileExistsError">>)
       ELSE /\ dirs' = dirs \cup MakeDirs(d.full_path)
            /\ proc' = [proc EXCEPT ![p].pc = "name",
                                    ![p].full_path = d.full_path,
                                    ![p].date_folder = d.date_folder,
                                    ![p].flight_folder = d.flight_folder]
            /\ UNCHANGED <<attempts, responses>>
  /\ UNCHANGED <<clock, images, metadata, logs, started, accepted, reply, client, removed>>

\* lines 103 and 163: the destination directory is derived and created
GetTimestampedPath(p) ==
  /\ proc[p].pc = "path"
  /\ Runnable(p)
  /\ LET d == get_timestamped_path(proc[p].flight_id, clock) IN
       /\ dirs' = dirs \cup MakeDirs(d.full_path)
       /\ proc' = [proc EXCEPT ![p].pc = "name",
                               ![p].full_path = d.full_path,
                               ![p].date_folder = d.date_folder,
                               ![p].flight_folder = d.flight_folder]
  /\ UNCHANGED <<clock, images, metadata, logs, started, accepted, attempts, responses, reply, client, removed>>

\* lines 106-107 and 166-167: the stored name of the file named original
GenerateFilename(p, original) ==
  /\ proc[p].pc = "name"
  /\ Runnable(p)
  /\ LET filename == generate_filename(original, clock) IN
       proc' = [proc EXCEPT ![p].pc = "write",
                            ![p].orig = original,
                            ![p].filename = filename,
                            ![p].image_path = Join(proc[p].full_path, filename)]
  /\ UNCHANGED <<clock, dirs, images, metadata, logs, started, accepted, attempts, responses, reply, client, removed>>

\* a handler that catches the exception of the image write and goes on
ImageWriteSwallowed(p, e) ==
  /\ proc' = [proc EXCEPT ![p].pc = "meta", ![p].failed = @ \cup {"image"}]
  /\ UNCHANGED <<attempts, responses>>

\* lines 101-112 with 145-146, 161-172 with 200-205: an exception of the
\* image write leaves the try block, the statements after the write are skipped
ImageWriteFailed(p, e) == Raise(p, "image", e)

\* lines 110-112 and 170-172: the upload is read and written to image_path.
\* file.read() may fail; open(image_path, "wb") may fail; a write may fail
\* after open has truncated the file, which leaves part of the bytes behind
WriteImage(p, outcome) ==
  /\ proc[p].pc = "write"
  /\ Runnable(p)
  /\ LET content == ContentOf(proc[p].file) IN
     \/ /\ outcome = "ok"
        /\ images' = WriteFile(images, proc[p].image_path, content)
        /\ proc' = [proc EXCEPT ![p].pc = "meta", ![p].content = content,
                                ![p].wrote = @ \cup {"image"}]
        /\ UNCHANGED <<attempts, responses>>
     \/ /\ outcome \in {"read_error", "open_error"}
        /\ UNCHANGED images
        /\ ImageWriteFailed(p, <<outcome>>)
     \/ /\ outcome = "write_error"
        /\ \E part \in Truncations(content) :
             images' = WriteFile(images, proc[p].image_path, part)
        /\ ImageWriteFailed(p, <<outcome>>)
  /\ UNCHANGED <<clock, dirs, metadata, logs, started, accepted, reply, client, removed>>

\* lines 115-129 and 175-187: the metadata record.  upload_batch has no
\* camera_settings and no notes field, and its record has neither key
MetadataRecord(p, camera_settings, metadata_file) ==
  LET form == FormOf(proc[p].req) IN
  [original_filename |-> proc[p].orig,
   stored_filename |-> proc[p].filename,
   flight_id |-> proc[p].flight_id,
   gps |-> [latitude |-> form.gps_latitude, longitude |-> form.gps_longitude],
   altitude |-> form.altitude,
   file_size |-> Len(proc[p].content),
   image_path |-> proc[p].image_path,
   metadata_file |-> metadata_file,
   complete |-> TRUE]
  @@ (IF proc[p].op = "upload_image"
      THEN [camera_settings |-> camera_settings, notes |-> form.notes]
      ELSE <<>>)

\* what json.dump leaves in the file when the write fails part-way
TruncatedJson == [complete |-> FALSE]

\* lines 115-132 and 175-190: the record is built (line 125: json.loads
\* raises on a camera_settings that is no JSON document) and save_metadata,
\* lines 51-68, creates the directories and writes the file
SaveMetadata(p, camera_settings, outcome) ==
  /\ proc[p].pc = "meta"
  /\ Runnable(p)
  /\ proc[p].op = "upload_batch" => camera_settings = None
  /\ LET metadata_file == MetadataFile(proc[p].image_path) IN
     IF camera_settings = <<"invalid json">>
     THEN /\ outcome = "ok"
          /\ UNCHANGED <<dirs, metadata>>
          /\ Raise(p, "camera_settings", <<"JSONDecodeError">>)
     ELSE /\ dirs' = dirs \cup MakeDirs(DirName(metadata_file))
          /\ \/ /\ outcome = "ok"
                /\ metadata' = WriteFile(metadata, metadata_file,
                     MetadataRecord(p, camera_settings, metadata_file))
                /\ proc' = [proc EXCEPT ![p].pc = "log",
                                        ![p].metadata_file = metadata_file,
                                        ![p].wrote = @ \cup {"metadata"}]
                /\ UNCHANGED <<attempts, responses>>
             \/ /\ outcome = "open_error"
                /\ UNCHANGED metadata
                /\ Raise(p, "metadata", <<outcome>>)
             \/ /\ outcome = "write_error"
                /\ metadata' = WriteFile(metadata, metadata_file, TruncatedJson)
                /\ Raise(p, "metadata", <<outcome>>)
  /\ UNCHANGED <<clock, images, logs, started, accepted, reply, client, removed>>

\* log_upload, lines 71-76: the log file of the day and the line appended
LogFile(t) == Join(LOGS_DIR, <<"uploads_">> \o StrfDate(t) \o <<".log">>)
LogLine(filename, flight_id) ==
  [flight |-> IF flight_id # None THEN flight_id ELSE <<"N/A">>, image |-> filename]

\* lines 135 and 193, then the return of the handler or the next batch entry
LogUpload(p, outcome) ==
  /\ proc[p].pc = "log"
  /\ Runnable(p)
  /\ \/ /\ outcome = "ok"
        /\ LET log_file == LogFile(clock)
               old == IF log_file \in DOMAIN logs THEN logs[log_file] ELSE <<>>
           IN logs' = WriteFile(logs, log_file,
                        Append(old, LogLine(proc[p].filename, proc[p].flight_id)))
        /\ Succeed(p)
     \/ /\ outcome = "open_error"
        /\ UNCHANGED logs
        /\ Raise(p, "log", <<outcome>>)
  /\ UNCHANGED <<clock, dirs, images, metadata, started, accepted, reply, client, removed>>

(* ---------------------------- specification --------------------------- *)
IoOutcomes == {"ok", "open_error", "write_error"}

Next ==
  \/ Tick
  \/ \E p \in Procs, f \in FlightIds : UploadImageStart(p, f)
  \/ \E p \in Procs, f \in FlightIds, n \in 1..MaxBatch : UploadBatchStart(p, f, n)
  \/ \E p \in Procs : GetTimestampedPath(p)
  \/ \E p \in Procs, o \in OriginalNames : GenerateFilename(p, o)
  \/ \E p \in Procs, r \in IoOutcomes \cup {"read_error"} : WriteImage(p, r)
  \/ \E p \in Procs, cs \in CameraSettings, r \in IoOutcomes : SaveMetadata(p, cs, r)
  \/ \E p \in Procs, r \in {"ok", "open_error"} : LogUpload(p, r)

Spec == Init /\ [][Next]_vars

(* ------------------- uploads one at a time, any name ------------------ *)
\* flight ids and file names a client may also send: a flight id that
\* contains the folder prefix, other extensions, upper case, no extension
WideFlightIds == FlightIds \cup {<<"flight_", "A">>}
WideNames == OriginalNames \cup {<<"c", ".tif">>, <<"d", ".JPG">>, <<"noext">>}

\* the single uploads of a client that waits for each answer, none failing
SerialNext ==
  \/ Tick
  \/ \E f \in WideFlightIds : UploadImageStart(1, f)
  \/ GetTimestampedPath(1)
  \/ \E o \in WideNames : GenerateFilename(1, o)
  \/ WriteImage(1, "ok")
  \/ SaveMetadata(1, None, "ok")
  \/ LogUpload(1, "ok")

SerialSpec == Init /\ [][SerialNext]_vars

(* ----------------------------- retrieval ------------------------------ *)
\* the files of the three trees, and the content of the file at path q
FilePaths == DOMAIN images \cup DOMAIN metadata \cup DOMAIN logs
FileAt(q) ==
  IF q \in DOMAIN images THEN images[q]
  ELSE IF q \in DOMAIN metadata THEN metadata[q] ELSE logs[q]

\* a path that names nothing
NoEntry == <<"?">>

RECURSIVE FirstSepFrom(_, _)
\* index of the first "/" of p at or after i (Len(p) + 1 if none)
FirstSepFrom(p, i) ==
  IF i > Len(p) THEN i ELSE IF p[i] = "/" THEN i ELSE FirstSepFrom(p, i + 1)

RECURSIVE ResolveFrom(_, _, _)
\* the path the components of p from index i on lead to, from directory at:
\* a ".." component leaves the directory reached so far, which has to
\* exist; a path that climbs above the working directory (<<>>) leaves the
\* three trees
ResolveFrom(at, p, i) ==
  IF i > Len(p) THEN at
  ELSE LET n == FirstSepFrom(p, i)
           component == SubSeq(p, i, n - 1)
       IN IF component = <<"..">>
          THEN IF at = <<>> \/ at \notin dirs THEN NoEntry
               ELSE ResolveFrom(DirName(at), p, n + 1)
          ELSE ResolveFrom(IF at = <<>> THEN component ELSE Join(at, component), p, n + 1)

\* the path the file system resolves p to, relative to the working directory
Resolve(p) ==
  IF \A k \in 1..Len(p) : p[k] # ".." THEN p ELSE ResolveFrom(<<>>, p, 1)

\* the file or directory x lies directly in directory d
InDir(x, d) ==
  IF d = <<>> THEN LastSep(x) = 0
  ELSE /\ Len(x) > Len(d) + 1
       /\ x[Len(d) + 1] = "/"
       /\ LastSep(x) = Len(d) + 1
       /\ SubSeq(x, 1, Len(d)) = d

\* os.listdir(d): the names of the files and directories directly in d
ListDir(d) ==
  LET resolved == Resolve(d) IN
  {BaseName(q) : q \in {x \in dirs \cup FilePaths : InDir(x, resolved)}}
IsDir(q) == Resolve(q) \in dirs \cup {<<>>}
IsFile(q) == Resolve(q) \in FilePaths
Exists(q) == IsDir(q) \/ IsFile(q)
\* the content of the file at q
ReadFile(q) == FileAt(Resolve(q))

\* os.path.relpath(q, IMAGE_DIR) of a path under IMAGE_DIR
RelPath(q) == SubSeq(q, Len(IMAGE_DIR) + 2, Len(q))

\* str.lower() on an extension
LowerAtom(a) == CASE a = ".JPG" -> ".jpg" [] a = ".PNG" -> ".png" [] OTHER -> a
Lower(s) == [i \in 1..Len(s) |-> LowerAtom(s[i])]

\* lines 278-286 and 302-310: the content type of a file name
MediaType(filename) ==
  LET ext == Lower(SplitExt(filename)) IN
  CASE ext \in {<<".jpg">>, <<".jpeg">>} -> "image/jpeg"
    [] ext = <<".png">> -> "image/png"
    [] ext \in {<<".tiff">>, <<".tif">>} -> "image/tiff"
    [] OTHER -> "image/jpeg"

NotFound(detail) == [status_code |-> 404, detail |-> detail]

\* list_images, lines 224-254 with a date: the files of the date's flight
\* folders.  The order of a listing is the file system's; the entries are
\* kept as a set
ListDate(flight_id, date) ==
  LET date_path == Join(IMAGE_DIR, date)
      folders == {ff \in ListDir(date_path) :
                    /\ ~(flight_id # None /\ <<"flight_">> \o flight_id # ff)
                    /\ IsDir(Join(date_path, ff))}
  IN UNION {{[filename |-> fn,
              path |-> Join(Join(date, ff), fn),
              flight_id |-> Replace(ff, <<"flight_">>, <<>>)] :
               fn \in {n \in ListDir(Join(date_path, ff)) :
                         IsFile(Join(Join(date_path, ff), n))}} :
            ff \in folders}

\* a list_images that keeps the files of the finished uploads in memory
\* instead of walking the image tree
ListAllUploaded ==
  {[filename |-> BaseName(q),
    path |-> RelPath(q),
    flight_id |-> LET flight_folder == BaseName(DirName(RelPath(q))) IN
                  IF Contains(flight_folder, <<"flight_">>)
                  THEN Replace(flight_folder, <<"flight_">>, <<>>)
                  ELSE None] :
     q \in {a.image_path : a \in {x \in attempts : x.status = "success"}}}

\* list_images, lines 245-254 without a date: every file under IMAGE_DIR
ListAll ==
  {[filename |-> BaseName(q),
    path |-> RelPath(q),
    flight_id |-> LET flight_folder == BaseName(DirName(RelPath(q))) IN
                  IF Contains(flight_folder, <<"flight_">>)
                  THEN Replace(flight_folder, <<"flight_">>, <<>>)
                  ELSE None] : q \in DOMAIN images}

\* a list_images that answers an empty result with an empty listing
list_images_or_empty(flight_id, date) ==
  IF date # None /\ ~Exists(Join(IMAGE_DIR, date))
  THEN NotFound(<<"No images found for date: ">> \o date)
  ELSE LET images_list == IF date # None THEN ListDate(flight_id, date) ELSE ListAll IN
       [status_code |-> 200, total |-> Cardinality(images_list),
        images |-> images_list]

\* GET /images/, lines 215-266 (simple = False)
list_images(flight_id, date) ==
  IF date # None /\ ~Exists(Join(IMAGE_DIR, date))
  THEN NotFound(<<"No images found for date: ">> \o date)
  ELSE LET images_list == IF date # None THEN ListDate(flight_id, date) ELSE ListAll IN
       IF images_list = {}
       THEN NotFound(<<"No images found">>)
       ELSE [status_code |-> 200, total |-> Cardinality(images_list),
             images |-> images_list]

\* lines 260-261: the simple form of a listing, the file names alone (one
\* for every listed path) and no total
SimpleListing(full) ==
  [status_code |-> 200,
   images |-> [q \in {e.path : e \in full.images} |-> BaseName(q)]]

\* GET /images/?simple=true, lines 215-261
list_images_simple(flight_id, date) ==
  LET full == list_images(flight_id, date) IN
  IF full.status_code # 200 THEN full ELSE SimpleListing(full)

\* GET /images/{date}/{flight_folder}/{filename}, lines 269-288.  A FileResponse
\* for a directory fails when it is sent
get_image(date, flight_folder, filename) ==
  LET image_path == Join(Join(Join(IMAGE_DIR, date), flight_folder), filename) IN
  IF ~Exists(image_path) THEN NotFound(<<"Image not found">>)
  ELSE IF IsFile(image_path)
       THEN [status_code |-> 200, body |-> ReadFile(image_path),
             media_type |-> MediaType(filename)]
       ELSE [status_code |-> 500]

\* a get_image_by_filename that searches the folder of the current day only
get_image_by_filename_today(filename) ==
  LET today == Join(IMAGE_DIR, StrfDate(clock))
      matches == {q \in DOMAIN images :
                    BaseName(q) = filename /\ DirName(DirName(q)) = today}
  IN IF matches = {} THEN {NotFound(<<"Image not found">>)}
     ELSE {[status_code |-> 200, body |-> images[q],
            media_type |-> MediaType(filename)] : q \in matches}

\* GET /images/{filename}, lines 291-313: the first match of os.walk, whose
\* order is the file system's: every match is a possible answer
get_image_by_filename(filename) ==
  LET matches == {q \in DOMAIN images : BaseName(q) = filename} IN
  IF matches = {} THEN {NotFound(<<"Image not found">>)}
  ELSE {[status_code |-> 200, body |-> images[q],
         media_type |-> MediaType(filename)] : q \in matches}

\* GET /metadata/{date}/{flight_folder}/{filename}, lines 316-330: the document
\* at the metadata path derived from the image path.  json.load raises on a
\* document cut short, open raises on a directory
get_metadata(date, flight_folder, filename) ==
  LET image_path == Join(Join(Join(IMAGE_DIR, date), flight_folder), filename)
      metadata_file == MetadataFile(image_path)
  IN IF ~Exists(metadata_file) THEN NotFound(<<"Metadata not found">>)
     ELSE IF IsFile(metadata_file) /\ ReadFile(metadata_file) # TruncatedJson
          THEN [status_code |-> 200, body |-> ReadFile(metadata_file)]
          ELSE [status_code |-> 500]

\* lines 343-350: the entry of a flight folder of a date folder
FlightEntry(date_folder, flight_folder) ==
  LET flight_path == Join(Join(IMAGE_DIR, date_folder), flight_folder) IN
  [date |-> date_folder,
   flight_id |-> Replace(flight_folder, <<"flight_">>, <<>>),
   path |-> Join(date_folder, flight_folder),
   image_count |-> Cardinality({f \in ListDir(flight_path) :
                                  IsFile(Join(flight_path, f))})]

\* a list_flights that leaves out the flight folders without a file
list_flights_nonempty ==
  LET flights ==
        UNION {{FlightEntry(date_folder, flight_folder) :
                  flight_folder \in
                    {ff \in ListDir(Join(IMAGE_DIR, date_folder)) :
                       /\ IsDir(Join(Join(IMAGE_DIR, date_folder), ff))
                       /\ Contains(ff, <<"flight_">>)
                       /\ FlightEntry(date_folder, ff).image_count > 0}} :
               date_folder \in {d \in ListDir(IMAGE_DIR) : IsDir(Join(IMAGE_DIR, d))}}
  IN IF flights = {} THEN NotFound(<<"No flights found">>)
     ELSE [status_code |-> 200, total |-> Cardinality(flights), flights |-> flights]

\* GET /flights/, lines 333-358 (the entries are kept as a set)
list_flights ==
  LET flights ==
        UNION {{FlightEntry(date_folder, flight_folder) :
                  flight_folder \in
                    {ff \in ListDir(Join(IMAGE_DIR, date_folder)) :
                       /\ IsDir(Join(Join(IMAGE_DIR, date_folder), ff))
                       /\ Contains(ff, <<"flight_">>)}} :
               date_folder \in {d \in ListDir(IMAGE_DIR) : IsDir(Join(IMAGE_DIR, d))}}
  IN IF flights = {} THEN NotFound(<<"No flights found">>)
     ELSE [status_code |-> 200, total |-> Cardinality(flights), flights |-> flights]

RECURSIVE TotalSize(_)
\* lines 368-372: the sum of os.path.getsize over the files of S
TotalSize(S) ==
  IF S = {} THEN 0
  ELSE LET q == CHOOSE x \in S : TRUE IN Len(images[q]) + TotalSize(S \ {q})

\* 1024**3, line 384
BytesPerGb == 1073741824

\* round(total_size / (1024**3), 2), line 384, in hundredths of a gigabyte:
\* to the nearest hundredth, a tie to the even one
RoundGb(total_size) ==
  LET q == (total_size * 100) \div BytesPerGb
      r == (total_size * 100) % BytesPerGb
      half == BytesPerGb \div 2
  IN IF r > half \/ (r = half /\ q % 2 = 1) THEN q + 1 ELSE q

\* lines 375-380: the flight id get_stats counts the file q under (None: the
\* file is not counted under any)
StatsFlightId(q) ==
  LET flight_folder == BaseName(DirName(q)) IN
  IF Contains(flight_folder, <<"flight_">>)
  THEN Replace(flight_folder, <<"flight_">>, <<>>)
  ELSE None

\* GET /stats/, lines 361-388
get_stats ==
  LET files == DOMAIN images
      counted == {q \in files : Contains(BaseName(DirName(q)), <<"flight_">>)}
      ids == {StatsFlightId(q) : q \in counted}
      flights == [g \in ids |-> Cardinality({q \in counted : StatsFlightId(q) = g})]
  IN [status_code |-> 200,
      total_images |-> Cardinality(files),
      total_size_gb_hundredths |-> RoundGb(TotalSize(files)),
      total_flights |-> Cardinality(ids),
      images_per_flight |-> flights]

(* ------------------------ retrieval requests -------------------------- *)
\* GET /health, lines 79-87
health_check ==
  [status_code |-> 200, status |-> <<"healthy">>,
   service |-> <<"drone-image-server">>, version |-> <<"1.0.0">>]

\* the event loop can run a retrieval handler: no upload handler holds it
CanRead == \A q \in Procs : ~MidBlock(q)

\* a retrieval handler runs and returns its answer: lines 79-87 and 215-388
\* hold no statement that writes to the trees
Answer(op, args, response) ==
  /\ CanRead
  /\ reply' = [op |-> op, args |-> args, response |-> response]
  /\ UNCHANGED <<clock, dirs, images, metadata, logs, proc, started, accepted,
                 attempts, responses, client, removed>>

HealthCheck == Answer("health_check", <<>>, health_check)

\* a list_images that creates the date folder it is asked for
ListImagesCreating(flight_id, date) ==
  /\ CanRead
  /\ reply' = [op |-> "list_images", args |-> <<flight_id, date>>,
               response |-> list_images(flight_id, date)]
  /\ dirs' = dirs \cup (IF date # None THEN MakeDirs(Join(IMAGE_DIR, date)) ELSE {})
  /\ UNCHANGED <<clock, images, metadata, logs, proc, started, accepted,
                 attempts, responses, client, removed>>

ListImages(flight_id, date) ==
  Answer("list_images", <<flight_id, date>>, list_images(flight_id, date))

GetImage(date, flight_folder, filename) ==
  Answer("get_image", <<date, flight_folder, filename>>,
         get_image(date, flight_folder, filename))

GetImageByFilename(filename) ==
  \E response \in get_image_by_filename(filename) :
    Answer("get_image_by_filename", <<filename>>, response)

GetMetadata(date, flight_folder, filename) ==
  Answer("get_metadata", <<date, flight_folder, filename>>,
         get_metadata(date, flight_folder, filename))

ListFlights == Answer("list_flights", <<>>, list_flights)

GetStats == Answer("get_stats", <<>>, get_stats)

\* an image file is taken out of the store by hand (the server has no
\* request that deletes)
MaxRemovals == 1
Remove(q) ==
  /\ q \in DOMAIN images
  /\ Cardinality(removed) < MaxRemovals
  /\ images' = [x \in DOMAIN images \ {q} |-> images[x]]
  /\ removed' = removed \cup {q}
  /\ UNCHANGED <<clock, dirs, metadata, logs, proc, started, accepted,
                 attempts, responses, reply, client>>

\* what the retrieval requests of a run ask for: a group, the first date of
\* the run and a date with no folder, the stored files, those removed and one
\* never stored
ReadFlightIds == {None, <<"A">>}
ReadDates == {None, StrfDate(StartClock), <<"D", "9">>}
NeverStored ==
  Join(Join(Join(IMAGE_DIR, <<"D", "9">>), <<"flight_", "Z">>), <<"x", ".jpg">>)
Lookups == DOMAIN images \cup removed \cup {NeverStored}
DateOf(q) == BaseName(DirName(DirName(q)))
FolderOf(q) == BaseName(DirName(q))

\* one client uploading file after file, files removed by hand, and the
\* retrieval requests
ReadNext ==
  \/ Tick
  \/ \E f \in FlightIds : UploadImageStart(1, f)
  \/ GetTimestampedPath(1)
  \/ \E o \in OriginalNames : GenerateFilename(1, o)
  \/ WriteImage(1, "ok")
  \/ SaveMetadata(1, None, "ok")
  \/ LogUpload(1, "ok")
  \/ \E q \in DOMAIN images : Remove(q)
  \/ HealthCheck
  \/ \E f \in ReadFlightIds, d \in ReadDates : ListImages(f, d)
  \/ \E q \in Lookups : GetImage(DateOf(q), FolderOf(q), BaseName(q))
  \/ \E q \in Lookups : GetImageByFilename(BaseName(q))
  \/ \E q \in Lookups : GetMetadata(DateOf(q), FolderOf(q), BaseName(q))
  \/ ListFlights
  \/ GetStats

ReadSpec == Init /\ [][ReadNext]_vars

(* ------------------------------ client.py ----------------------------- *)
\* the sequences that enumerate the set S once, in any order (a JSON list in
\* the order of the file system)
Orderings(S) ==
  {s \in [1..Cardinality(S) -> S] : \A i, j \in 1..Cardinality(S) : s[i] = s[j] => i = j}

\* the "images" list of a 200 answer of GET /images/ as the client parses
\* it: strings in the simple form the client asks for, records in the full
\* form, which get_image_by_index accepts as well (tests/test_client.py)
JsonImages(full, form) ==
  {[i \in 1..Len(order) |->
      IF form = "simple"
      THEN [type |-> "str", value |-> order[i].filename]
      ELSE [type |-> "dict", value |-> order[i]]] :
     order \in Orderings(full.images)}

\* client.py, list_images, lines 35-53: the images of a 200 answer, the empty
\* list for any other answer
ClientListImages(form) ==
  LET full == list_images(None, None) IN
  IF full.status_code = 200 THEN JsonImages(full, form) ELSE {<<>>}

\* a range check that lets a negative index through
IndexTooLarge(index, list) == index >= Len(list)

\* lines 86-88: the index is not valid
IndexOutOfRange(index, list) == index < 0 \/ index >= Len(list)

\* list[index] of a Python list: counted from 0, a negative index counts
\* from the end
ListItem(list, index) ==
  IF index >= 0 THEN list[index + 1] ELSE list[Len(list) + index + 1]

\* lines 92-95: the file name of the entry at index
FilenameAt(list, index) ==
  LET entry == ListItem(list, index) IN
  IF entry.type = "dict" THEN entry.value.filename ELSE entry.value

\* get_image_by_index(index), lines 76-95: the list is fetched and the index
\* checked; the call returns None or goes on to the download
GetImageByIndexList(index, form) ==
  /\ client.pc = "idle"
  /\ CanRead
  /\ \E list \in ClientListImages(form) :
       client' =
         IF list = <<>> \/ IndexOutOfRange(index, list)
         THEN [client EXCEPT !.pc = "done", !.index = index, !.images = list,
                             !.result = None]
         ELSE [client EXCEPT !.pc = "download", !.index = index, !.images = list,
                             !.filename = FilenameAt(list, index)]
  /\ UNCHANGED <<clock, dirs, images, metadata, logs, proc, started, accepted,
                 attempts, responses, reply, removed>>

\* lines 97-100 with get_image_by_filename, lines 56-73: GET /images/{filename};
\* a 200 answer is saved as downloaded_<filename> and that path returned, any
\* other answer returns None
GetImageByIndexDownload ==
  /\ client.pc = "download"
  /\ CanRead
  /\ \E response \in get_image_by_filename(client.filename) :
       client' = [client EXCEPT
                    !.pc = "done",
                    !.requested = Append(@, client.filename),
                    !.result = IF response.status_code = 200
                               THEN <<"downloaded_">> \o client.filename
                               ELSE None]
  /\ UNCHANGED <<clock, dirs, images, metadata, logs, proc, started, accepted,
                 attempts, responses, reply, removed>>

\* the indexes a client asks for
ClientIndexes == -1..MaxUploads

\* one client uploading file after file, files removed by hand, and a call of
\* get_image_by_index
ClientNext ==
  \/ Tick
  \/ \E f \in FlightIds : UploadImageStart(1, f)
  \/ GetTimestampedPath(1)
  \/ \E o \in OriginalNames : GenerateFilename(1, o)
  \/ WriteImage(1, "ok")
  \/ SaveMetadata(1, None, "ok")
  \/ LogUpload(1, "ok")
  \/ \E q \in DOMAIN images : Remove(q)
  \/ \E i \in ClientIndexes, form \in {"simple", "full"} : GetImageByIndexList(i, form)
  \/ GetImageByIndexDownload

ClientSpec == Init /\ [][ClientNext]_vars

(* ------------------------------- claims ------------------------------- *)
\* the attempts whose request has been answered
Reported(a) == a.req \in DOMAIN responses
SameDirectory(a, b) == DirName(a.image_path) = DirName(b.image_path)
\* the bytes of attempt a are what the file at its path holds
Holds(a) == IsFile(a.image_path) /\ images[a.image_path] = a.sent

\* no upload is in progress
Quiescent == \A p \in Procs : proc[p].pc = "idle"

\* no upload attempt has failed
NoFailures == \A a \in attempts : a.status = "success"

\* C1: the stored filenames of any uploads (single uploads or batch entries)
\* that succeeded into the same group directory are pairwise distinct.
C1_DistinctStoredNames ==
  \A a, b \in attempts :
    (a # b /\ a.status = "success" /\ b.status = "success" /\ SameDirectory(a, b))
      => a.filename # b.filename

\* C2: after any sequence of successful uploads, the image file at the path
\* each upload returned still holds exactly the bytes of that upload.
C2_NoSilentOverwrite ==
  (Quiescent /\ NoFailures) => \A a \in attempts : Reported(a) => Holds(a)

\* C3: two upload_image requests that ran concurrently into the same directory
\* and succeeded have distinct stored filenames, and both images exist
\* afterwards with their own bytes.
C3_ConcurrentUploadsKeepBoth ==
  \A a, b \in attempts :
    (/\ a.op = "upload_image" /\ b.op = "upload_image"
     /\ a.req \in b.inflight
     /\ a.status = "success" /\ b.status = "success"
     /\ Reported(a) /\ Reported(b)
     /\ SameDirectory(a, b))
      => (a.filename # b.filename /\ Holds(a) /\ Holds(b))

\* C4: when upload_image answers with success (no upload having failed
\* before), retrieving the image at once,
\* by get_image with the returned date, flight folder and filename or by
\* get_image_by_filename with the returned filename, yields exactly the
\* uploaded bytes with the content type of the stored file's extension.
C4_RoundTrip ==
  [][\A p \in Procs :
       \A req \in {proc[p].req}, date \in {proc[p].date_folder},
          folder \in {proc[p].flight_folder}, filename \in {proc[p].filename},
          sent \in {ContentOf(proc[p].file)} :
         (/\ proc[p].op = "upload_image"
          /\ req \notin DOMAIN responses
          /\ req \in DOMAIN responses'
          /\ responses'[req].status_code = 200
          /\ NoFailures')
           => LET expected == [status_code |-> 200, body |-> sent,
                               media_type |-> MediaType(filename)]
              IN /\ responses'[req].filename = filename
                 /\ get_image(date, folder, filename)' = expected
                 /\ get_image_by_filename(filename)' = {expected}]_vars

\* the mirrored path of an image path: the same relative path under the
\* metadata root, with the extension replaced by .json
MirrorPath(q) ==
  LET rel == RelPath(q) IN
  Join(METADATA_DIR, SubSeq(rel, 1, Len(rel) - Len(SplitExt(rel))) \o <<".json">>)

\* C5: after any sequence of upload calls, successful or failed, every image
\* file has a parseable metadata file at its mirrored path and every metadata
\* file is the mirror of an image file.
C5_MetadataMirrorsImages ==
  Quiescent =>
    /\ \A q \in DOMAIN images :
         MirrorPath(q) \in DOMAIN metadata /\ metadata[MirrorPath(q)].complete
    /\ \A m \in DOMAIN metadata : \E q \in DOMAIN images : MirrorPath(q) = m

\* C6: two distinct stored image paths (of uploads that succeeded) never map
\* to the same metadata file.
C6_MetadataPathOneToOne ==
  (Quiescent /\ NoFailures) =>
    \A q1, q2 \in DOMAIN images : q1 # q2 => MetadataFile(q1) # MetadataFile(q2)

\* the relative paths of the images stored in the group of flight_id
StoredIn(flight_id) ==
  {RelPath(q) : q \in {x \in DOMAIN images :
                         BaseName(DirName(x)) = <<"flight_">> \o flight_id}}
\* the paths a list_images response lists
ListedPaths(resp) ==
  IF resp.status_code = 200 THEN {e.path : e \in resp.images} ELSE {}
\* the date labels of a run
Dates == {StrfDate(t) : t \in StartClock..MaxClock}

\* C7: once uploads into groups A and B have succeeded (and none has failed),
\* list_images filtered by a group
\* lists exactly the assets of that group, with a date filter (those of that
\* date) and without one, and list_images with no filter lists every asset.
C7_ListingReflectsStore ==
  (/\ Quiescent
   /\ NoFailures
   /\ StoredIn(<<"A">>) # {} /\ StoredIn(<<"B">>) # {}) =>
    /\ \A f \in {<<"A">>, <<"B">>} :
         ListedPaths(list_images(f, None)) = StoredIn(f)
    /\ \A f \in {<<"A">>, <<"B">>}, d \in Dates :
         ListedPaths(list_images(f, d))
           = {r \in StoredIn(f) : SubSeq(r, 1, Len(d)) = d}
    /\ ListedPaths(list_images(None, None)) = {RelPath(q) : q \in DOMAIN images}

\* C8: after upload_image reported a failure, neither the image file nor the
\* metadata file of that upload exists.
C8_FailedUploadLeavesNothing ==
  \A a \in attempts :
    (/\ a.op = "upload_image" /\ a.status = "error"
     /\ Reported(a) /\ responses[a.req].status_code = 500)
      => (~IsFile(a.image_path) /\ MetadataFile(a.image_path) \notin DOMAIN metadata)

\* C9: an upload whose image and metadata were written and whose audit-log
\* write failed still reports success.
C9_LogFailureIsNotFatal ==
  \A a \in attempts :
    ("log" \in a.failed /\ {"image", "metadata"} \subseteq a.wrote)
      => /\ a.status = "success"
         /\ (a.op = "upload_image" /\ Reported(a)) => responses[a.req].status_code = 200

\* the attempt whose image write failed
ImageWriteFailure(a) == a.op = "upload_image" /\ "image" \in a.failed

\* C10: an upload_image whose image write failed reports HTTP 500 and has
\* written neither a metadata file nor a log line, and the step in which the
\* write fails leaves the metadata tree and the log files as they were.
C10_ImageWriteFailureProducesNothing ==
  /\ [](\A a \in attempts :
          ImageWriteFailure(a) =>
            /\ a.status = "error"
            /\ Reported(a) /\ responses[a.req].status_code = 500
            /\ a.wrote \cap {"metadata", "log"} = {})
  /\ [][(\E a \in attempts' \ attempts : ImageWriteFailure(a))
          => UNCHANGED <<metadata, logs>>]_vars

\* an upload_image whose image write failed has been answered
C10_Witness == \E a \in attempts : ImageWriteFailure(a) /\ Reported(a)

\* the answered upload_batch requests, and the attempts (entries) of one
BatchRequests == {r \in DOMAIN responses : responses[r].op = "upload_batch"}
EntriesOf(req) == {a \in attempts : a.req = req}

\* the summary of an answered batch: HTTP 200, one result and one processed
\* entry for every input file, successful + failed = total
BatchSummary(req) ==
  LET resp == responses[req] IN
    /\ resp.status_code = 200
    /\ Len(resp.results) = resp.total
    /\ resp.successful + resp.failed = resp.total
    /\ {a.idx : a \in EntriesOf(req)} = 1..resp.total
    /\ resp.successful = Cardinality({a \in EntriesOf(req) : a.status = "success"})
    /\ resp.failed = Cardinality({a \in EntriesOf(req) : a.status = "error"})

\* get_image for the stored location of attempt a returns the bytes sent
Retrievable(a) ==
  LET got == get_image(a.date_folder, a.flight_folder, a.filename) IN
  got.status_code = 200 /\ got.body = a.sent

\* the summary part of C11 holds in every reachable state
BatchSummaryHolds == \A req \in BatchRequests : BatchSummary(req)

\* C11: an answered upload_batch has HTTP 200, total = n, n results in all,
\* successful + failed = total, every entry processed whether or not another
\* failed; and in a batch with a failed entry the images of the successful
\* entries are each retrievable.
C11_BatchFailureIsolation ==
  \A req \in BatchRequests :
    /\ BatchSummary(req)
    /\ responses[req].failed > 0 =>
         \A a \in EntriesOf(req) : a.status = "success" => Retrievable(a)

\* result is the outcome of attempt a as upload_batch reports it
OutcomeOf(a, result) ==
  /\ result.status = a.status
  /\ a.status = "success" =>
       result.filename = a.filename /\ result.path = a.image_path
  /\ a.status = "error" =>
       result.filename = a.orig /\ result.error # <<>>

\* C12: the i-th element of the results of an answered upload_batch is the
\* outcome of the i-th input file: stored filename and path for a success,
\* original filename and error text for an error.
C12_ResultsInInputOrder ==
  \A req \in BatchRequests :
    \A i \in 1..Len(responses[req].results) :
      \E a \in EntriesOf(req) :
        a.idx = i /\ OutcomeOf(a, responses[req].results[i])

\* an answered batch whose first entry failed and whose second succeeded
C12_Witness ==
  \E req \in BatchRequests :
    /\ Len(responses[req].results) = 2
    /\ responses[req].results[1].status = "error"
    /\ responses[req].results[2].status = "success"

\* the query parameters of list_images: the flight ids and dates of a run
\* (nothing is stored under a flight id no upload has used yet), a date
\* nothing was stored under, and the parent directory
QueryFlightIds == FlightIds
QueryDates == {None} \cup Dates \cup {<<"D", "9">>, <<"..">>}

DateFilterAnswer(f, d) ==
  LET resp == list_images(f, d) IN
  IF ~IsDir(Join(IMAGE_DIR, d))
  THEN resp = NotFound(<<"No images found for date: ">> \o d)
  ELSE resp.status_code = 200 =>
         \A e \in resp.images :
           /\ SubSeq(e.path, 1, Len(d)) = d
           /\ Join(IMAGE_DIR, e.path) \in DOMAIN images

\* the date part of C14 for the date labels, existing or not
DateLabelFilterHolds ==
  \A f \in QueryFlightIds, d \in Dates \cup {<<"D", "9">>} : DateFilterAnswer(f, d)

\* C14: list_images with a date filter d answers 404, naming the date, when
\* no directory for d exists under the image root, and otherwise returns only
\* assets stored under d's subtree, every returned path starting with d.
C14_DateFilter ==
  \A f \in QueryFlightIds, d \in QueryDates \ {None} : DateFilterAnswer(f, d)

\* the group id of an upload: the flight_id sent, or the generated folder
\* name without its "flight_" prefix
GroupOf(a) ==
  IF a.flight_id # None THEN a.flight_id
  ELSE SubSeq(a.flight_folder, 2, Len(a.flight_folder))
Succeeded == {a \in attempts : a.status = "success"}

\* the counters of get_stats that count files and groups
StatsCounts ==
  /\ get_stats.total_images = Cardinality(DOMAIN images)
  /\ get_stats.total_flights = Cardinality({GroupOf(a) : a \in Succeeded})
  /\ DOMAIN get_stats.images_per_flight = {GroupOf(a) : a \in Succeeded}
\* the total size get_stats reports is the sum of the byte lengths
StatsSize ==
  get_stats.total_size_gb_hundredths * BytesPerGb = 100 * TotalSize(DOMAIN images)
\* images_per_flight[g] is the number of images uploaded to g
StatsPerFlight ==
  \A g \in DOMAIN get_stats.images_per_flight :
    get_stats.images_per_flight[g] = Cardinality({a \in Succeeded : GroupOf(a) = g})

\* the file and group counters hold after successful uploads
StatsCountsHold == (Quiescent /\ NoFailures) => StatsCounts

\* C15: after any sequence of successful uploads get_stats reports
\* total_images = the number of stored image files, a total size = the sum
\* of their byte lengths, total_flights = the number of distinct group ids
\* holding an image, and images_per_flight[g] = the number of images
\* uploaded to group g.
C15_StatsMatchStore ==
  (Quiescent /\ NoFailures) => (StatsCounts /\ StatsSize /\ StatsPerFlight)

\* the group ids list_images (with and without a date), list_flights and
\* get_stats report for the stored image of attempt a
ReportedGroups(a) ==
  LET rel == RelPath(a.image_path)
      all == list_images(None, None)
      dated == list_images(None, a.date_folder)
      flights == list_flights
  IN {e.flight_id : e \in {x \in all.images : x.path = rel}}
     \cup {e.flight_id : e \in {x \in dated.images : x.path = rel}}
     \cup {e.flight_id : e \in {x \in flights.flights : x.path = DirName(rel)}}
     \cup {StatsFlightId(a.image_path)}

\* C16: for every asset uploaded with flight_id g, list_images, list_flights
\* and get_stats report its group id as exactly g, also when g contains
\* "flight_", and two distinct flight ids are never reported as the same group.
C16_GroupIdRecovered ==
  Quiescent =>
    /\ \A a \in Succeeded :
         a.flight_id # None =>
           /\ ReportedGroups(a) = {a.flight_id}
           /\ a.flight_id \in DOMAIN get_stats.images_per_flight
    /\ \A a, b \in Succeeded :
         (a.flight_id # None /\ b.flight_id # None /\ a.flight_id # b.flight_id)
           => ReportedGroups(a) \cap ReportedGroups(b) = {}

\* the value of key k of a JSON object (null when the object has no such key)
Field(obj, k) == IF k \in DOMAIN obj THEN obj[k] ELSE None

\* get_metadata for the stored location of attempt a
MetadataOf(a) == get_metadata(a.date_folder, a.flight_folder, a.filename)

\* the record get_metadata returns for attempt a is the one written for a
RecordOf(a) ==
  LET got == MetadataOf(a)
      form == FormOf(a.req)
  IN /\ got.status_code = 200
     /\ got.body.flight_id = a.flight_id
     /\ got.body.gps = [latitude |-> form.gps_latitude, longitude |-> form.gps_longitude]
     /\ got.body.altitude = form.altitude
     /\ Field(got.body, "notes") = (IF a.op = "upload_image" THEN form.notes ELSE None)
     /\ got.body.stored_filename = a.filename
     /\ got.body.original_filename = a.orig
     /\ got.body.file_size = Len(a.sent)

\* get_metadata answers 404 when no metadata file is at the mirrored path
MetadataNotFound ==
  \A a \in attempts :
    (a.image_path # <<>> /\ MirrorPath(a.image_path) \notin DOMAIN metadata)
      => MetadataOf(a).status_code = 404

\* C17: get_metadata for the date, flight folder and filename of a
\* successfully uploaded image returns the record written at that upload
\* (flight_id, gps, altitude, notes, stored and original filename, file
\* size), and 404 when no metadata file exists at the mirrored path.
C17_MetadataRoundTrip ==
  /\ MetadataNotFound
  /\ (Quiescent /\ NoFailures) => \A a \in Succeeded : RecordOf(a)

\* the content type C18 gives for a file name, by its last element
TypeByExtension(filename) ==
  LET last == IF filename = <<>> THEN "" ELSE filename[Len(filename)] IN
  IF last \in {".jpg", ".jpeg", ".JPG"} THEN "image/jpeg"
  ELSE IF last \in {".png", ".PNG"} THEN "image/png"
  ELSE IF last \in {".tif", ".tiff"} THEN "image/tiff"
  ELSE "image/jpeg"

\* get_image answers as C18 says for the path date/flight_folder/filename
GetImageAnswer(date, flight_folder, filename) ==
  LET image_path == Join(Join(Join(IMAGE_DIR, date), flight_folder), filename)
      resp == get_image(date, flight_folder, filename)
  IN IF IsFile(image_path)
     THEN resp = [status_code |-> 200, body |-> ReadFile(image_path),
                  media_type |-> TypeByExtension(filename)]
     ELSE resp.status_code = 404

\* C18 for the location of every upload attempt, in its own folder and in
\* every other folder of the run
StoredImageAnswers ==
  \A a, b \in {x \in attempts : x.image_path # <<>>} :
    GetImageAnswer(a.date_folder, b.flight_folder, a.filename)

\* C18: get_image(date, flight_folder, filename) returns the file stored at
\* exactly that path, 404 if no file exists there, with the content type of
\* the extension (case-insensitive; image/jpeg for any other or none).
C18_GetImageByPath ==
  /\ StoredImageAnswers
  /\ \A d \in Dates : GetImageAnswer(<<"..">>, IMAGE_DIR, d)

\* file names to look up: every stored name a run can produce (stored or
\* not in the state at hand), and the parent directory
QueryNames ==
  {generate_filename(o, t) : o \in WideNames, t \in StartClock..MaxClock}
    \cup {<<"..">>}

\* the paths under the image root, in any date and group, that hold a file
\* whose write was begun under the base name f
StoredAs(f) ==
  {a.image_path : a \in {x \in attempts : x.filename = f /\ IsFile(x.image_path)}}
    \cup {proc[p].image_path :
             p \in {x \in Procs : proc[x].filename = f /\ IsFile(proc[x].image_path)}}

\* C19: get_image_by_filename(f) returns a stored file whose base name is
\* exactly f whenever one exists under the image root, in any date and
\* group, and 404 exactly when no file named f exists.
C19_GetImageByFilename ==
  \A f \in QueryNames :
    IF StoredAs(f) = {}
    THEN get_image_by_filename(f) = {NotFound(<<"Image not found">>)}
    ELSE \A resp \in get_image_by_filename(f) :
           /\ resp.status_code = 200
           /\ \E q \in StoredAs(f) : BaseName(q) = f /\ resp.body = images[q]

\* a file stored on the day before the current one is found by its name
C19_Witness ==
  \E a \in Succeeded :
    /\ a.date_folder # StrfDate(clock)
    /\ IsFile(a.image_path)
    /\ \A resp \in get_image_by_filename(a.filename) : resp.status_code = 200

\* the group directories of the store: the directories two levels below the
\* image root
GroupDirs == {d \in dirs : DirName(DirName(d)) = IMAGE_DIR}
\* the regular files directly in directory d
FilesIn(d) == {q \in DOMAIN images : DirName(q) = d}

\* C20: list_flights returns one entry per (date, group directory) pair of
\* the store, each with image_count = the number of regular files now in
\* that directory, total = the number of entries, and 404 when no group
\* directory exists.
C20_ListFlights ==
  LET resp == list_flights IN
  IF GroupDirs = {}
  THEN resp = NotFound(<<"No flights found">>)
  ELSE /\ resp.status_code = 200
       /\ resp.total = Cardinality(resp.flights)
       /\ resp.total = Cardinality(GroupDirs)
       /\ {Join(IMAGE_DIR, e.path) : e \in resp.flights} = GroupDirs
       /\ \A e \in resp.flights :
            /\ e.path = Join(e.date, BaseName(e.path))
            /\ e.image_count = Cardinality(FilesIn(Join(IMAGE_DIR, e.path)))

\* a store with a group directory that holds a file and one that holds none
C20_Witness ==
  LET resp == list_flights IN
  /\ resp.status_code = 200
  /\ \E e1, e2 \in resp.flights : e1.image_count = 0 /\ e2.image_count > 0

\* the uploads whose stored name has been generated: the finished attempts
\* and the handlers past line 107
Named ==
  {[orig |-> a.orig, filename |-> a.filename] :
     a \in {x \in attempts : x.filename # <<>>}}
    \cup {[orig |-> proc[p].orig, filename |-> proc[p].filename] :
             p \in {x \in Procs : proc[x].filename # <<>>}}

\* the extension of a client-supplied name: its last element when that is
\* an extension
ClientExtension(orig) ==
  IF orig[Len(orig)] \in ExtAtoms THEN <<orig[Len(orig)]>> ELSE <<>>

\* C21: the stored filename of an upload is a reading of the server clock,
\* taken during the run, formatted as date, time of day and milliseconds
\* (the microseconds cut down to milliseconds), followed by the extension of
\* the client's original filename and by nothing else of that name.
C21_StoredNameFormat ==
  \A n \in Named :
    \E t \in StartClock..clock :
      n.filename = <<ToString(Day(t)), "_", ToString(SecOfDay(t)), "_",
                     ToString((t % TicksPerSec) \div TicksPerMs)>>
                   \o ClientExtension(n.orig)

\* an upload of a .jpg and one of a .png have both been stored
C21_Witness ==
  \E a, b \in Succeeded :
    /\ a.orig = <<"a", ".jpg">> /\ a.filename[Len(a.filename)] = ".jpg"
    /\ b.orig = <<"b", ".png">> /\ b.filename[Len(b.filename)] = ".png"

\* the bytes of the files of a run, each written in full
CompleteContents == {ContentOf(k) : k \in 1..MaxUploads}
\* the image file at path q holds part of the bytes of an upload only
PartiallyWritten(q) == q \in DOMAIN images /\ images[q] \notin CompleteContents
\* the image paths the successful upload responses name
SuccessPaths ==
  {responses[r].path :
     r \in {x \in DOMAIN responses : /\ responses[x].op = "upload_image"
                                     /\ responses[x].status_code = 200}}
    \cup UNION {{responses[r].results[i].path :
                   i \in {j \in 1..Len(responses[r].results) :
                            responses[r].results[j].status = "success"}} :
                r \in BatchRequests}
\* what the retrieval handlers expose of the image tree
ExposedComplete ==
  /\ \A x \in ListedPaths(list_images(None, None)) :
       ~PartiallyWritten(Join(IMAGE_DIR, x))
  /\ \A q \in DOMAIN images :
       \A resp \in get_image_by_filename(BaseName(q)) :
         resp.status_code = 200 => resp.body \in CompleteContents

\* as long as no step of an upload fails, every file in the image tree is
\* written in full whenever another handler can run
CompleteWithoutFailure == NoFailures => ExposedComplete

\* C23: no successful response references a partially written image: the
\* path an upload_image or upload_batch response reports as stored holds a
\* file written in full, and while an upload is in progress a list_images or
\* get_image_by_filename request (handled when no upload handler holds the
\* event loop) exposes no file that holds part of an upload only.
C23_NoPartialImageReferenced ==
  /\ \A q \in SuccessPaths : ~PartiallyWritten(q)
  /\ (~Quiescent /\ CanRead) => ExposedComplete

\* C24: get_timestamped_path is idempotent and safe under concurrent callers:
\* every handler that asks for a destination obtains it, whether or not the
\* directory exists and whoever else targets it, no attempt fails for a
\* directory that exists, and the step (and the makedirs of save_metadata)
\* keeps every directory and leaves the files as they were.
C24_DestinationIdempotent ==
  /\ [](\A a \in attempts : "path" \notin a.failed)
  /\ [][\A p \in Procs :
          /\ (proc[p].pc = "path" /\ proc'[p] # proc[p]) =>
               /\ proc'[p].pc = "name"
               /\ proc'[p].full_path \in dirs'
               /\ dirs \subseteq dirs'
               /\ UNCHANGED <<images, metadata, logs>>
          /\ (proc[p].pc = "meta" /\ proc'[p] # proc[p]) =>
               /\ dirs \subseteq dirs'
               /\ UNCHANGED images]_vars

\* two uploads in progress have obtained the same directory
C24_Witness ==
  \E p, q \in Procs :
    /\ p # q
    /\ proc[p].pc = "write" /\ proc[q].pc = "write"
    /\ proc[p].full_path = proc[q].full_path

\* C25: the entries of one upload_batch call that succeed are stored in the
\* same group directory and share one group id, with a flight_id and with a
\* group generated from the clock.
C25_BatchSharesGroup ==
  \A a, b \in Succeeded :
    (a.op = "upload_batch" /\ a.req = b.req) =>
      /\ SameDirectory(a, b)
      /\ a.flight_folder = b.flight_folder

\* with a flight_id the entries of a batch share the group label (not always
\* the date folder)
BatchSharesLabel ==
  \A a, b \in Succeeded :
    (a.op = "upload_batch" /\ a.req = b.req /\ a.flight_id # None) =>
      a.flight_folder = b.flight_folder

\* C28: a group exists only once it holds an asset: every entry of a
\* list_flights response has image_count >= 1, in every reachable state in
\* which the request can be handled.
C28_NoEmptyGroup ==
  LET resp == list_flights IN
  (CanRead /\ resp.status_code = 200) => \A e \in resp.flights : e.image_count >= 1

\* between requests, with no failed attempt, every listed group holds a file
NoEmptyGroupAfterSuccess ==
  LET resp == list_flights IN
  (Quiescent /\ NoFailures /\ resp.status_code = 200)
    => \A e \in resp.flights : e.image_count >= 1

\* an empty group is listed between requests, after an upload whose image
\* write failed
EmptyGroupAfterFailure ==
  LET resp == list_flights IN
  ~(/\ Quiescent
    /\ \E a \in attempts : ImageWriteFailure(a)
    /\ resp.status_code = 200
    /\ \E e \in resp.flights : e.image_count = 0)

\* C29: the flight_id a successful upload_image returns is the flight_id
\* list_images reports for that asset, and list_images filtered by that
\* flight_id and the asset's date lists the asset; with a flight_id supplied
\* by the client and with a session generated from the clock.
C29_ReturnedFlightIdRoundTrip ==
  \A a \in {x \in Succeeded : x.op = "upload_image" /\ Reported(x)} :
    LET returned == responses[a.req].flight_id
        asset == RelPath(a.image_path)
    IN /\ \A e \in list_images(None, None).images :
            e.path = asset => e.flight_id = returned
       /\ asset \in ListedPaths(list_images(returned, a.date_folder))

\* the round trip holds for every upload that supplied a flight_id
SuppliedFlightIdRoundTrip ==
  \A a \in {x \in Succeeded : x.op = "upload_image" /\ Reported(x) /\ x.flight_id # None} :
    LET returned == responses[a.req].flight_id
        asset == RelPath(a.image_path)
    IN /\ \A e \in list_images(None, None).images :
            e.path = asset => e.flight_id = returned
       /\ asset \in ListedPaths(list_images(returned, a.date_folder))

\* the day in the date folder, in the group label and in the stored name of
\* an upload that named its file
DayOfBucket(u) == u.date_folder[2]
DayOfLabel(u) == u.flight_folder[2]
DayOfName(u) == u.filename[1]

\* C30: for every stored asset the date folder, the date part of a group
\* label generated from the clock and the date part of the stored filename
\* denote the same calendar day.
C30_OneCalendarDay ==
  \A a \in Succeeded :
    /\ DayOfName(a) = DayOfBucket(a)
    /\ a.flight_id = None => DayOfLabel(a) = DayOfBucket(a)

\* the date folder and a generated group label come from one reading of the
\* clock and agree
BucketAndLabelAgree ==
  \A a \in Succeeded : a.flight_id = None => DayOfLabel(a) = DayOfBucket(a)

\* C27: the retrieval handlers health_check, list_images, get_image,
\* get_image_by_filename, get_metadata, list_flights and get_stats leave the
\* image tree, the metadata tree, the log files and the directories as they
\* were, whether they answer 200 or NotFound: a request for a date or group
\* that does not exist creates no directory.
C27_RetrievalLeavesStore ==
  /\ [][reply' # reply => UNCHANGED <<dirs, images, metadata, logs>>]_vars
  /\ [](reply.op \in {"none", "health_check", "list_images", "get_image",
                      "get_image_by_filename", "get_metadata", "list_flights",
                      "get_stats"})

\* list_images has answered NotFound for a date that has no folder, in a
\* store that holds an image, and the folder still does not exist
C27_Witness ==
  /\ reply.op = "list_images"
  /\ reply.args[2] = <<"D", "9">>
  /\ reply.response.status_code = 404
  /\ Join(IMAGE_DIR, <<"D", "9">>) \notin dirs
  /\ DOMAIN images # {}

\* C26: every list_images, list_flights and get_stats response is derived
\* from the image tree as it is when the request is handled: list_images
\* lists exactly the files now stored (all of them, and those of a date),
\* an image whose upload has completed is listed unless it was removed, a
\* removed image is listed no more, list_flights counts the files now in
\* each group folder and get_stats counts the files now stored.
C26_ListingsFollowStorage ==
  LET listing == ListedPaths(list_images(None, None))
      flights == list_flights
      stats == get_stats
  IN /\ listing = {RelPath(q) : q \in DOMAIN images}
     /\ \A d \in Dates :
          ListedPaths(list_images(None, d)) =
            {RelPath(q) : q \in {x \in DOMAIN images : DateOf(x) = d}}
     /\ \A a \in Succeeded :
          a.image_path \notin removed => RelPath(a.image_path) \in listing
     /\ \A q \in removed : q \notin DOMAIN images => RelPath(q) \notin listing
     /\ IF GroupDirs = {} THEN flights.status_code = 404
        ELSE /\ {e.path : e \in flights.flights} = {RelPath(d) : d \in GroupDirs}
             /\ \A e \in flights.flights :
                  e.image_count = Cardinality(FilesIn(Join(IMAGE_DIR, e.path)))
     /\ stats.total_images = Cardinality(DOMAIN images)

\* one uploaded image has been removed and is gone, another is stored
C26_Witness ==
  /\ \E q \in removed : q \notin DOMAIN images
  /\ \E a \in Succeeded : a.image_path \in DOMAIN images
  /\ list_images(None, None).status_code = 200

\* the file name the entry at position i (from 0) of a list stands for: the
\* entry itself when it is a string, its filename field when it is a record
NamedAt(list, i) ==
  IF list[i + 1].type = "str" THEN list[i + 1].value ELSE list[i + 1].value.filename

\* the index of the call is within the list the call received
ValidIndex == 0 <= client.index /\ client.index < Len(client.images)

\* C22: get_image_by_index(i) returns None and asks for no download when the
\* list of the server is empty or i is negative or at least its length;
\* otherwise it asks for exactly one download, of the file named at position
\* i of the list, and returns the result of that download: the path of the
\* saved file, or None when the server has no such file any more.
C22_GetImageByIndex ==
  /\ [](client.pc = "download" =>
          /\ ValidIndex
          /\ client.requested = <<>>
          /\ client.filename = NamedAt(client.images, client.index))
  /\ [](client.pc = "done" =>
          IF ValidIndex
          THEN client.requested = <<NamedAt(client.images, client.index)>>
          ELSE client.result = None /\ client.requested = <<>>)
  /\ [][(client.pc = "download" /\ client'.pc = "done") =>
          client'.result =
            IF \E q \in DOMAIN images : BaseName(q) = client.filename
            THEN <<"downloaded_">> \o client.filename
            ELSE None]_vars

\* a call with index 1 received two records and downloaded the second file
C22_Witness ==
  /\ client.pc = "done"
  /\ client.index = 1
  /\ Len(client.images) = 2
  /\ client.images[2].type = "dict"
  /\ client.result = <<"downloaded_">> \o client.images[2].value.filename

====
